---- MODULE Spec2Model ----
(***************************************************************************)
(* A model of the better-auth TypeORM adapter: the operation dispatcher    *)
(* (create, findOne, update, updateMany, delete, deleteMany, count), the   *)
(* input/output transformer, the predicate compiler, the transaction       *)
(* coordinator and the schema synchronizer.                                *)
(*                                                                         *)
(* The repository behind the dispatcher is the mapping engine's: a table   *)
(* of entities keyed by property name.  The entities are the ones          *)
(* generateEntity emits: one property per logical field, named by the      *)
(* logical field name, stored in the column fieldName || logical name.     *)
(***************************************************************************)
EXTENDS Integers, Sequences, FiniteSets, TLC

\* ------------------------------------------------------------------ bounds
MaxRows == 2     \* ids the table can hold
MaxDepth == 2    \* nesting depth of transaction calls on a scoped dispatcher
MaxClock == 2    \* distinct Date.now() values a run of synchronize calls sees
MaxLen == 2
MaxCallers == 3      \* characters in a text value handed to a pattern operator

VARIABLES
  \* --- the dispatcher
  table,        \* the rows of the model's repository (entities, by property)
  renamed,      \* whether the schema gives field "name" the column "full_name"
  softDelete,   \* "off" | "noColumn": options.softDeleteEnabledEntities
  last,         \* the last completed dispatcher call: operation, inputs, result
  \* --- the transaction coordinator
  txpc,         \* position of the transactional call
  events,       \* query-runner calls issued by the call, in order, with outcome
  depth,        \* nesting depth of transaction() calls on the scoped dispatcher
  txView,       \* the table as the open transaction sees it
  snapshot,     \* the table when the transaction began
  firstErr,     \* the first failure of the call ("none" when there is none)
  cbResult,     \* what the callback returned ("none" before it returns)
  pending,      \* the completion the try/catch has settled on, before finally
  outcome,      \* what the caller receives
  \* --- the schema synchronizer
  catalog,      \* live catalog: model -> its set of column names ({}: no table)
  expected,     \* expected schema: model -> set of logical fields
  entityFile,   \* entity file on disk: model -> "none" | "stale" | "current"
  clock,        \* Date.now() of the last synchronize call
  disk,         \* names of the migration files in the migrations directory
  syncLog,      \* changelog entries of the last synchronize call
  syncWrote,    \* migrations written by the last synchronize call
  syncNew,      \* the files among them that did not exist before the call
  stable,       \* consecutive synchronize calls with no drift in between
  chain,        \* "none" | "synced" | "applied" | "resynced"
  extra,        \* the <<model, field>> pairs the "synced" call found one field short
  ran,          \* the migrations last run: which, the catalog before, "up" | "down"
  \* --- calls followed step by step, between their awaits
  updating,     \* a single-clause update: position, inputs, what it read and wrote
  dataSource,   \* isInitialized, and how many times initialize was invoked
  callers,      \* each concurrent caller's operation and its position in it
  introspection \* a schema-synchronize call's query runner: position, acquired, released

crudVars == <<table, renamed, softDelete, last>>
txVars == <<txpc, events, depth, txView, snapshot, firstErr, cbResult, pending, outcome>>
syncVars == <<catalog, expected, entityFile, clock, disk, syncLog, syncWrote, syncNew,
             stable, chain, extra, ran>>
initVars == <<dataSource, callers>>
schemaVars == <<introspection>>
stepVars == <<updating, dataSource, callers, introspection>>
vars == <<table, renamed, softDelete, last,
          txpc, events, depth, txView, snapshot, firstErr, cbResult, pending, outcome,
          catalog, expected, entityFile, clock, disk, syncLog, syncWrote, syncNew,
          stable, chain, extra, ran, updating, dataSource, callers, introspection>>

\* ------------------------------------------------------------------ values
Undef == "undef"   \* JavaScript undefined / SQL NULL
Null == "null"     \* a null result

Ids == {ToString(i) : i \in 1..MaxRows}
NameVals == {"A", "B"}
RoleVals == {"r0", "r1"}

\* The model schema of logical model "user": fields name and role, both required.
Fields == {"name", "role"}
Props == {"id"} \cup Fields

\* fields[field].fieldName || field
fieldNameOf(f) == IF f = "name" /\ renamed THEN "full_name" ELSE f

\* fields[field].defaultValue
defaultValueOf(f) == IF f = "role" THEN "r0" ELSE Undef

Get(rec, k) == IF k \in DOMAIN rec THEN rec[k] ELSE Undef
Truthy(v) == v # Undef /\ v # Null

\* ------------------------------------------------- input/output transformer
Coalesce(a, b) == IF a = Undef \/ a = Null THEN b ELSE a

\* getField / getFieldName: "id" is returned unchanged
getFieldName(f) == IF f = "id" THEN f ELSE fieldNameOf(f)

withApplyDefault(value, f, action) ==
  IF action = "update" THEN value
  ELSE IF (value = Undef \/ value = Null) /\ Truthy(defaultValueOf(f))
       THEN defaultValueOf(f)
       ELSE value

\* The schema fields transformInput emits for `data`.
EmittedFields(data, action) ==
  {f \in Fields :
     ~(Get(data, f) = Undef /\ (~Truthy(defaultValueOf(f)) \/ action = "update"))}

transformInput(data, action) ==
  LET emitted == EmittedFields(data, action)
      seed == IF action = "update" THEN {} ELSE {"id"}
      cols == seed \cup {fieldNameOf(f) : f \in emitted}
  IN [c \in cols |->
        IF \E f \in emitted : fieldNameOf(f) = c
        THEN LET f == CHOOSE g \in emitted : fieldNameOf(g) = c
             IN withApplyDefault(Get(data, f), f, action)
        ELSE Get(data, "id")]

\* data.id || data._id
IdOf(data) == IF Truthy(Get(data, "id")) THEN data["id"] ELSE Get(data, "_id")

\* The mutant of transformOutput that seeds id whatever the select-list is.
transformOutputSeedsId(data, select) ==
  LET seed == IF Truthy(IdOf(data)) THEN {"id"} ELSE {}
      keys == {k \in Fields : select = {} \/ k \in select}
  IN [k \in seed \cup keys |->
        IF k \in keys THEN Get(data, fieldNameOf(k)) ELSE IdOf(data)]

\* transformOutput of a non-null record; `select` is the select-list as a set
\* (the code only asks select.length and select.includes).
transformOutput(data, select) ==
  LET seed == IF Truthy(IdOf(data)) /\ (select = {} \/ "id" \in select)
              THEN {"id"} ELSE {}
      keys == {k \in Fields : select = {} \/ k \in select}
  IN [k \in seed \cup keys |->
        IF k \in keys THEN Get(data, fieldNameOf(k)) ELSE IdOf(data)]

\* The record handed to repository.create / repository.update: one entry per
\* key of the caller's data, under the caller's key.
EntityData(data, action) ==
  LET transformed == transformInput(data, action)
  IN [key \in DOMAIN data |-> Coalesce(Get(transformed, getFieldName(key)), data[key])]

\* ------------------------------------------------------ predicate compiler
\* The mutant of EmptyGroup that no row satisfies.
GroupOfNoRow == [id |-> [op |-> "Equal", value |-> Undef]]

\* {}: a group without conditions
EmptyGroup == [k \in {} |-> Undef]

\* Text values of the pattern operators are sequences of characters; "%" and
\* "_" are the wildcards of LIKE.
Chars == {"a", "b", "_", "%"}
Texts == UNION {[1..n -> Chars] : n \in 0..MaxLen}

convertOperatorToTypeORM(operator, value) ==
  IF operator = "ne" THEN [op |-> "Not", value |-> value]
  ELSE IF operator = "contains" THEN [op |-> "Like", value |-> <<"%">> \o value \o <<"%">>]
  ELSE IF operator = "starts_with" THEN [op |-> "Like", value |-> value \o <<"%">>]
  ELSE IF operator = "ends_with" THEN [op |-> "Like", value |-> <<"%">> \o value]
  ELSE [op |-> "Equal", value |-> value]

\* transformWhereClause: the clause with its field resolved to the column name,
\* operator and connector defaulted.
transformWhereClause(where) ==
  [i \in 1..Len(where) |->
     [field |-> getFieldName(where[i].field), operator |-> where[i].operator,
      value |-> where[i].value, connector |-> where[i].connector]]

\* The mutant of ConvertFrom that keeps the condition a field already has.
RECURSIVE ConvertFromKeepsEarlier(_, _, _)
ConvertFromKeepsEarlier(cw, i, acc) ==
  IF i > Len(cw) THEN acc
  ELSE LET w == cw[i]
           started == IF w.connector = "OR" THEN Append(acc, EmptyGroup) ELSE acc
           n == Len(started)
           cur == started[n]
           val == IF w.operator = "eq"
                  THEN [op |-> "Equal", value |-> w.value]
                  ELSE convertOperatorToTypeORM(w.operator, w.value)
           grp == [k \in DOMAIN cur \cup {w.field} |->
                     IF k \in DOMAIN cur THEN cur[k] ELSE val]
       IN ConvertFromKeepsEarlier(cw, i + 1, [started EXCEPT ![n] = grp])

RECURSIVE ConvertFrom(_, _, _)
ConvertFrom(cw, i, acc) ==
  IF i > Len(cw) THEN acc
  ELSE LET w == cw[i]
           started == IF w.connector = "OR" THEN Append(acc, EmptyGroup) ELSE acc
           n == Len(started)
           cur == started[n]
           val == IF w.operator = "eq"
                  THEN [op |-> "Equal", value |-> w.value]
                  ELSE convertOperatorToTypeORM(w.operator, w.value)
           grp == [k \in DOMAIN cur \cup {w.field} |-> IF k = w.field THEN val ELSE cur[k]]
       IN ConvertFrom(cw, i + 1, [started EXCEPT ![n] = grp])

convertWhereToFindOptions(where) ==
  IF Len(where) = 0 THEN <<EmptyGroup>>
  ELSE ConvertFrom(transformWhereClause(where), 1, <<EmptyGroup>>)

\* The mutant of FindOptionsOf that always hands over the first group.
FindOptionsFirstGroup(arr) == [single |-> TRUE, where |-> arr[1]]

\* findOptionsArr.length === 1 ? findOptionsArr[0] : findOptionsArr
FindOptionsOf(arr) ==
  IF Len(arr) = 1 THEN [single |-> TRUE, where |-> arr[1]]
  ELSE [single |-> FALSE, where |-> arr]

\* findOne and count are handed the array itself.
FindOptionsArray(arr) == [single |-> FALSE, where |-> arr]

\* ------------------------------------------------- the repository primitives
\* An empty criteria object: the mapping engine's update and delete reject it
\* in some versions and take it as "every row" in others.
EmptyCriteria(fo) == fo.single /\ DOMAIN fo.where = {}

\* column LIKE pattern: "%" stands for any run of characters, "_" for any one.
RECURSIVE LikeMatches(_, _)
LikeMatches(pattern, text) ==
  IF pattern = <<>> THEN text = <<>>
  ELSE IF Head(pattern) = "%"
       THEN LikeMatches(Tail(pattern), text)
            \/ (text # <<>> /\ LikeMatches(pattern, Tail(text)))
       ELSE /\ text # <<>>
            /\ (Head(pattern) = "_" \/ Head(pattern) = Head(text))
            /\ LikeMatches(Tail(pattern), Tail(text))

CondHolds(v, c) ==
  IF c.op = "Not" THEN v # c.value
  ELSE IF c.op = "Like" THEN LikeMatches(c.value, v)
  ELSE v = c.value

MatchesGroup(row, g) == \A k \in DOMAIN g : k \in DOMAIN row /\ CondHolds(row[k], g[k])

\* A where object matches by all of its properties, an array of them by any.
RepoMatches(row, fo) ==
  IF fo.single THEN MatchesGroup(row, fo.where)
  ELSE \E i \in 1..Len(fo.where) : MatchesGroup(row, fo.where[i])

RepoFind(tbl, fo) == {r \in tbl : RepoMatches(r, fo)}

\* repository.update(criteria, partial): the rows after, and result.affected
RepoUpdate(tbl, fo, entityData) ==
  [rows |-> {IF RepoMatches(r, fo)
             THEN [p \in Props |-> IF p \in DOMAIN entityData THEN entityData[p] ELSE r[p]]
             ELSE r : r \in tbl},
   affected |-> Cardinality(RepoFind(tbl, fo))]

\* repository.delete(criteria)
RepoDelete(tbl, fo) ==
  [rows |-> {r \in tbl : ~RepoMatches(r, fo)},
   affected |-> Cardinality(RepoFind(tbl, fo))]

\* repository.create(entityData): the entity with the properties it was given
RepoCreate(entityData) == [p \in Props |-> Get(entityData, p)]

\* repository.save rejects a NULL in a required (non-nullable) column
SaveFails(entity) == \E f \in Fields : entity[f] = Undef

\* find with a select option returns the selected properties; whether the
\* primary column comes along unasked is the mapping engine's choice.
Project(row, select, withId) ==
  IF select = {} THEN row
  ELSE [k \in (select \cup (IF withId THEN {"id"} ELSE {})) \cap Props |-> row[k]]

IdsOf(rows) == {r["id"] : r \in rows}

\* The number of rows that satisfy the compiled predicate: a row satisfies it
\* when it satisfies one of its groups.
Matching(tbl, arr) ==
  Cardinality({r \in tbl : \E i \in 1..Len(arr) : MatchesGroup(r, arr[i])})

\* The logical record of a stored row: its id and every schema field's value.
LogicalRecord(row) == [k \in Props |-> row[k]]

\* ------------------------------------------------------------ the inputs
\* A record of the keys whose value is given.
Partial(i, n, r) ==
  LET full == [k \in Props |-> IF k = "id" THEN i ELSE IF k = "name" THEN n ELSE r]
  IN [k \in {p \in Props : full[p] # Undef} |-> full[k]]

\* Data handed to create: with or without an id, a name and a role.
CreateInputs ==
  {Partial(i, n, r) : i \in Ids \cup {Undef}, n \in NameVals \cup {Undef},
                      r \in RoleVals \cup {Undef}}

UpdateInputs == {Partial(Undef, Undef, "r1"), Partial(Undef, "B", Undef),
                 Partial(Undef, "B", "r0")}

Selects == {{}, {"name"}, {"id", "name"}}

Clause(f, o, v, c) == [field |-> f, operator |-> o, value |-> v, connector |-> c]
IdIs1 == Clause("id", "eq", "1", "AND")
RoleIsR0 == Clause("role", "eq", "r0", "AND")
OrRoleNotR0 == Clause("role", "ne", "r0", "OR")
OrIdIs2 == Clause("id", "eq", "2", "OR")

\* Where sequences: none, one clause, one group of two, two groups, and a
\* leading OR clause (which leaves the first group empty).
Wheres ==
  {<<>>, <<IdIs1>>, <<RoleIsR0>>, <<OrRoleNotR0>>, <<OrIdIs2>>,
   <<IdIs1, RoleIsR0>>, <<RoleIsR0, OrIdIs2>>, <<IdIs1, OrRoleNotR0>>}

AllRows == [Props -> Ids \cup NameVals \cup RoleVals]
Rows == {r \in AllRows : r["id"] \in Ids /\ r["name"] \in NameVals /\ r["role"] \in RoleVals}
Tables == {t \in SUBSET Rows : \A r1, r2 \in t : r1["id"] = r2["id"] => r1 = r2}

\* `some` tells a record result from a null one.
NoCall == [op |-> "none", ok |-> TRUE, some |-> FALSE, ret |-> Null]

\* ------------------------------------------------------- the dispatcher
\* create: transformInput, entityData under the caller's keys, generateId when
\* no id is given, repository.create + save, transformOutput.
Create ==
  \E data \in CreateInputs, select \in Selects, gen \in Ids \ IdsOf(table) :
    LET given == EntityData(data, "create")
        needsId == ~Truthy(Get(given, "id"))
        entityData == [k \in DOMAIN given \cup {"id"} |->
                         IF k = "id" /\ needsId THEN gen ELSE given[k]]
        entity == RepoCreate(entityData)
    IN /\ (IF needsId THEN TRUE ELSE gen = Get(given, "id"))
       /\ entity["id"] \notin IdsOf(table)
       /\ IF SaveFails(entity)
          THEN /\ table' = table
               /\ last' = [op |-> "create", ok |-> FALSE, some |-> FALSE, ret |-> Null,
                           handed |-> DOMAIN entityData]
          ELSE /\ table' = table \cup {entity}
               /\ last' = [op |-> "create", ok |-> TRUE, some |-> TRUE,
                           ret |-> transformOutput(entity, select),
                           data |-> data, id |-> entity["id"], select |-> select,
                           handed |-> DOMAIN entityData]
       /\ UNCHANGED <<renamed, softDelete>>
       /\ UNCHANGED <<txVars, syncVars, stepVars>>

\* The mutant of PreReads that reads before every update with a clause.
PreReadsWhateverTheLength(where) == Len(where) >= 1

\* if (where.length === 1): the update is preceded by a findOne
PreReads(where) == Len(where) = 1

\* update: with exactly one clause, pre-read, update, re-read by the same
\* predicate; otherwise (and when the re-read finds nothing) update and null.
Update ==
  \E where \in Wheres, update \in UpdateInputs :
    LET fo == FindOptionsOf(convertWhereToFindOptions(where))
        entityData == EntityData(update, "update")
        found == RepoFind(table, fo)
        first == RepoUpdate(table, fo, entityData)
        reread == RepoFind(first.rows, fo)
        again == RepoUpdate(first.rows, fo, entityData)
        call == [op |-> "update", ok |-> TRUE, nwhere |-> Len(where),
                 matched |-> IdsOf(found), update |-> update, before |-> table,
                 reads |-> IF PreReads(where) THEN (IF found # {} THEN 2 ELSE 1) ELSE 0]
    IN /\ IF EmptyCriteria(fo)
          THEN \E rejects \in BOOLEAN :
                 IF rejects
                 THEN /\ table' = table
                      /\ last' = [op |-> "update", ok |-> FALSE, some |-> FALSE,
                                  ret |-> Null]
                 ELSE /\ table' = first.rows
                      /\ last' = call @@ [some |-> FALSE, ret |-> Null, updates |-> 1]
          ELSE IF PreReads(where) /\ found # {}
          THEN IF reread # {}
               THEN \E r \in reread :
                      /\ table' = first.rows
                      /\ last' = call @@ [some |-> TRUE, ret |-> transformOutput(r, {}),
                                           updates |-> 1]
               ELSE /\ table' = again.rows
                    /\ last' = call @@ [some |-> FALSE, ret |-> Null, updates |-> 2]
          ELSE /\ table' = first.rows
               /\ last' = call @@ [some |-> FALSE, ret |-> Null, updates |-> 1]
       /\ UNCHANGED <<renamed, softDelete>>
       /\ UNCHANGED <<txVars, syncVars, stepVars>>

\* updateMany: repository.update, result.affected || 0
UpdateMany ==
  \E where \in Wheres, update \in UpdateInputs, rejects \in BOOLEAN :
    LET arr == convertWhereToFindOptions(where)
        fo == FindOptionsOf(arr)
        res == RepoUpdate(table, fo, EntityData(update, "update"))
    IN /\ rejects => EmptyCriteria(fo)
       /\ IF rejects
          THEN /\ table' = table
               /\ last' = [op |-> "updateMany", ok |-> FALSE, some |-> FALSE, ret |-> Null]
          ELSE /\ table' = res.rows
               /\ last' = [op |-> "updateMany", ok |-> TRUE, ret |-> res.affected,
                           emptyWhere |-> Len(where) = 0,
                           matching |-> Matching(table, arr),
                           before |-> Cardinality(table)]
       /\ UNCHANGED <<renamed, softDelete>>
       /\ UNCHANGED <<txVars, syncVars, stepVars>>

\* The mutant of SoftDeleteMisconfigured that never finds the column missing.
SoftDeleteColumnNotLookedFor == FALSE

\* deleteOrSoftDeleteHandler: a soft-delete entity without a deletedAt column
\* throws before anything is issued; otherwise repository.delete.
SoftDeleteMisconfigured == softDelete = "noColumn"

\* delete: no return value
Delete ==
  \E where \in Wheres, rejects \in BOOLEAN :
    LET fo == FindOptionsOf(convertWhereToFindOptions(where))
        res == RepoDelete(table, fo)
    IN /\ rejects => EmptyCriteria(fo) /\ ~SoftDeleteMisconfigured
       /\ IF SoftDeleteMisconfigured \/ rejects
          THEN /\ table' = table
               /\ last' = [op |-> "delete", ok |-> FALSE, some |-> FALSE, ret |-> Null,
                           issued |-> IF SoftDeleteMisconfigured THEN <<>>
                                      ELSE <<"delete">>]
          ELSE /\ table' = res.rows
               /\ last' = [op |-> "delete", ok |-> TRUE, some |-> FALSE, ret |-> Null,
                           issued |-> <<"delete">>]
       /\ UNCHANGED <<renamed, softDelete>>
       /\ UNCHANGED <<txVars, syncVars, stepVars>>

\* deleteMany: result.affected || 0
DeleteMany ==
  \E where \in Wheres, rejects \in BOOLEAN :
    LET arr == convertWhereToFindOptions(where)
        fo == FindOptionsOf(arr)
        res == RepoDelete(table, fo)
    IN /\ rejects => EmptyCriteria(fo) /\ ~SoftDeleteMisconfigured
       /\ IF SoftDeleteMisconfigured \/ rejects
          THEN /\ table' = table
               /\ last' = [op |-> "deleteMany", ok |-> FALSE, some |-> FALSE, ret |-> Null,
                           issued |-> IF SoftDeleteMisconfigured THEN <<>>
                                      ELSE <<"delete">>]
          ELSE /\ table' = res.rows
               /\ last' = [op |-> "deleteMany", ok |-> TRUE, ret |-> res.affected,
                           issued |-> <<"delete">>, emptyWhere |-> Len(where) = 0,
                           matching |-> Matching(table, arr),
                           before |-> Cardinality(table)]
       /\ UNCHANGED <<renamed, softDelete>>
       /\ UNCHANGED <<txVars, syncVars, stepVars>>

\* count: repository.count with the compiled array
Count ==
  \E where \in Wheres :
    LET fo == FindOptionsArray(convertWhereToFindOptions(where))
        chained == last.op = "deleteMany" /\ last.ok
    IN /\ last' = [op |-> "count", ok |-> TRUE, ret |-> Cardinality(RepoFind(table, fo)),
                   emptyWhere |-> Len(where) = 0, chained |-> chained,
                   before |-> IF chained THEN last.before ELSE 0,
                   deleted |-> IF chained THEN last.ret ELSE 0]
       /\ UNCHANGED <<table, renamed, softDelete>>
       /\ UNCHANGED <<txVars, syncVars, stepVars>>

\* findOne: repository.findOne with the compiled array and the select-list,
\* transformOutput of the row found, null when there is none.
FindOne ==
  \E where \in Wheres, select \in Selects :
    LET fo == FindOptionsArray(convertWhereToFindOptions(where))
        found == RepoFind(table, fo)
        eqId == IF Len(where) = 1 /\ where[1].field = "id" /\ where[1].operator = "eq"
                THEN where[1].value ELSE Undef
        \* the call follows the create of the record whose id it asks for
        chained == IF last.op = "create" /\ last.ok THEN last.id = eqId ELSE FALSE
        call == [op |-> "findOne", ok |-> TRUE, select |-> select, chained |-> chained,
                 createdData |-> IF chained THEN last.data ELSE EmptyGroup]
    IN /\ IF found = {}
          THEN last' = call @@ [some |-> FALSE, ret |-> Null]
          ELSE \E r \in found, withId \in BOOLEAN :
                 last' = call @@ [some |-> TRUE,
                                  ret |-> transformOutput(Project(r, select, withId),
                                                          select)]
       /\ UNCHANGED <<table, renamed, softDelete>>
       /\ UNCHANGED <<txVars, syncVars, stepVars>>

\* findMany: take: limit || 100
DefaultLimit == 100

\* An optional number is the empty set when absent, {n} when given.
Given(opt) == CHOOSE n \in opt : TRUE
\* opt || d: an absent number and 0 both yield d
OrElse(opt, d) == IF opt = {} THEN d ELSE IF Given(opt) = 0 THEN d ELSE Given(opt)

Limits == {{}, {0}, {1}, {2}}
Offsets == {{}, {1}}
NoSort == [field |-> "", direction |-> ""]
Sorts == {NoSort, [field |-> "name", direction |-> "asc"],
          [field |-> "name", direction |-> "desc"]}

\* The order of the values of a column.
Rank(v) == IF v \in {"A", "r0"} THEN 1 ELSE 2

\* The sequences that hold every row of a set once.
Orderings(rows) ==
  {seq \in [1..Cardinality(rows) -> rows] :
     \A i, j \in 1..Cardinality(rows) : seq[i] = seq[j] => i = j}

\* order: { [sortBy.field]: "DESC" | "ASC" }, undefined without a sort field
\* (the repository then returns the rows in an order of its own)
InOrder(seq, sortBy) ==
  IF sortBy.field = "" THEN TRUE
  ELSE \A i, j \in 1..Len(seq) :
         i < j => IF sortBy.direction = "desc"
                  THEN Rank(seq[i][sortBy.field]) >= Rank(seq[j][sortBy.field])
                  ELSE Rank(seq[i][sortBy.field]) <= Rank(seq[j][sortBy.field])

\* skip and take applied to an ordered result
Page(seq, skip, take) ==
  IF skip >= Len(seq) THEN <<>>
  ELSE SubSeq(seq, skip + 1, IF skip + take < Len(seq) THEN skip + take ELSE Len(seq))

\* findMany: repository.find with the compiled array, take, skip and order,
\* transformOutput of every row.  The call reads only, so the calls made from
\* the stored tables of the initial states are all the calls there are.
FindMany ==
  /\ last.op = "none"
  /\ \E where \in Wheres, limit \in Limits, offset \in Offsets, sortBy \in Sorts :
       LET fo == FindOptionsArray(convertWhereToFindOptions(where))
           found == RepoFind(table, fo)
           take == OrElse(limit, DefaultLimit)
           skip == OrElse(offset, 0)
       IN \E seq \in Orderings(found) :
            /\ InOrder(seq, sortBy)
            /\ last' = [op |-> "findMany", ok |-> TRUE, emptyWhere |-> Len(where) = 0,
                        limit |-> limit, offset |-> offset, sortBy |-> sortBy,
                        take |-> take, skip |-> skip, found |-> found,
                        ordered |-> seq, rows |-> Page(seq, skip, take),
                        ret |-> [i \in 1..Len(Page(seq, skip, take)) |->
                                   transformOutput(Page(seq, skip, take)[i], {})]]
  /\ UNCHANGED <<table, renamed, softDelete>>
  /\ UNCHANGED <<txVars, syncVars, stepVars>>

\* The operations of a dispatcher.
Operations ==
  {"create", "findOne", "findMany", "update", "updateMany", "delete", "deleteMany", "count"}

\* The words each catch block puts before the model name.
FailedTo(op) ==
  IF op = "findOne" THEN "Failed to find"
  ELSE IF op = "findMany" THEN "Failed to find many"
  ELSE IF op = "updateMany" THEN "Failed to update many"
  ELSE IF op = "deleteMany" THEN "Failed to delete many"
  ELSE IF op = "create" THEN "Failed to create"
  ELSE IF op = "update" THEN "Failed to update"
  ELSE IF op = "delete" THEN "Failed to delete"
  ELSE "Failed to count"

\* new BetterAuthError(`Failed to <op> ${model}: ${error.message}`)
BetterAuthErrorOf(op, model, text) ==
  [wrapped |-> TRUE, prefix |-> FailedTo(op), model |-> model, text |-> text]

\* An error that reaches the caller as the repository raised it.
RawError(text) == [wrapped |-> FALSE, prefix |-> "", model |-> "", text |-> text]

\* The repository call of an operation of the plain dispatcher rejects: the
\* catch block of the operation wraps the error; nothing is written.
OperationFails ==
  \E op \in Operations :
    /\ last' = [op |-> "failure", ok |-> FALSE, of |-> op, scoped |-> FALSE,
                model |-> "user", text |-> "E_repo",
                error |-> BetterAuthErrorOf(op, "user", "E_repo")]
    /\ UNCHANGED <<table, renamed, softDelete>>
    /\ UNCHANGED <<txVars, syncVars, stepVars>>

\* Name resolution over the schema registry, which declares model "user" alone.
SchemaModels == {"user"}
ModelNames == {"user", "ghost"}
FieldNames == {"id", "name", "role", "nickname"}

Resolved(v) == [kind |-> "ok", value |-> v]
\* throw new Error(`Model ${model} not found in schema`)
ModelNotFound == [kind |-> "Error", value |-> "Model not found in schema"]
\* reading a property of undefined
TypeErrorOfUndefined == [kind |-> "TypeError", value |-> "Cannot read properties of undefined"]

getField(model, field) ==
  IF field = "id" THEN Resolved(field)
  ELSE IF model \notin SchemaModels THEN ModelNotFound
  ELSE IF field \notin Fields THEN TypeErrorOfUndefined
  ELSE Resolved(fieldNameOf(field))

getModelName(model) ==
  IF model \notin SchemaModels THEN ModelNotFound ELSE Resolved(model)

\* A model name or a field name is resolved; neither resolver holds a
\* repository call.
ResolveName ==
  \E what \in {"model", "field"}, model \in ModelNames, field \in FieldNames :
    /\ last.op = "none"
    /\ last' = [op |-> "resolve", ok |-> TRUE, what |-> what, model |-> model,
                field |-> IF what = "field" THEN field ELSE "",
                issued |-> FALSE,
                result |-> IF what = "field" THEN getField(model, field)
                           ELSE getModelName(model)]
    /\ UNCHANGED <<table, renamed, softDelete>>
    /\ UNCHANGED <<txVars, syncVars, stepVars>>

\* Where sequences with two clauses on one field: in the same group, and in
\* different groups.
RoleIsR1 == Clause("role", "eq", "r1", "AND")
RepeatedFieldWheres ==
  {<<RoleIsR0, RoleIsR1>>, <<IdIs1, RoleIsR0, RoleIsR1>>,
   <<RoleIsR1, OrRoleNotR0, RoleIsR0>>, <<RoleIsR1, OrIdIs2, IdIs1>>}

\* A where sequence is compiled and the result evaluated on a row as the
\* repository evaluates it.
CompileWhere ==
  \E where \in Wheres \cup RepeatedFieldWheres, row \in Rows :
    LET groups == convertWhereToFindOptions(where)
    IN /\ last.op = "none"
       /\ last' = [op |-> "compile", ok |-> TRUE, where |-> where, groups |-> groups,
                   row |-> row, matches |-> RepoMatches(row, FindOptionsOf(groups))]
       /\ UNCHANGED <<table, renamed, softDelete>>
       /\ UNCHANGED <<txVars, syncVars, stepVars>>

\* A pattern clause is compiled and its condition evaluated on a column value.
CompilePattern ==
  \E operator \in {"contains", "starts_with", "ends_with"}, value \in Texts,
     column \in Texts :
    LET cond == convertOperatorToTypeORM(operator, value)
    IN /\ last.op = "none"    \* the compiler keeps no state: one evaluation each
       /\ last' = [op |-> "pattern", ok |-> TRUE, operator |-> operator,
                   value |-> value, column |-> column,
                   matches |-> CondHolds(column, cond)]
       /\ UNCHANGED <<table, renamed, softDelete>>
       /\ UNCHANGED <<txVars, syncVars, stepVars>>

\* ------------------------------------------------ the transaction coordinator
Results == {"res1", "res2"}   \* what a callback may return

NoOutcome == [kind |-> "none", value |-> "none"]
Returned(v) == [kind |-> "return", value |-> v]
Threw(e) == [kind |-> "throw", value |-> e]

Has(seq, e) == \E i \in 1..Len(seq) : seq[i] = e

\* The scoped dispatcher's convertWhereToFindOptions: one object, one entry per
\* clause under the clause's own field name, connectors not read.
RECURSIVE TxConvertFrom(_, _, _)
TxConvertFrom(where, i, acc) ==
  IF i > Len(where) THEN acc
  ELSE LET w == where[i]
           val == IF w.operator = "eq"
                  THEN [op |-> "Equal", value |-> w.value]
                  ELSE convertOperatorToTypeORM(w.operator, w.value)
       IN TxConvertFrom(where, i + 1,
            [k \in DOMAIN acc \cup {w.field} |-> IF k = w.field THEN val ELSE acc[k]])

txConvertWhereToFindOptions(where) ==
  [single |-> TRUE, where |-> TxConvertFrom(where, 1, EmptyGroup)]

\* const queryRunner = dataSource.createQueryRunner(); await queryRunner.connect()
\* (before the try block: a failure leaves the call at once)
TransactionConnect ==
  /\ txpc = "idle"
  /\ \E ok \in BOOLEAN :
       IF ok
       THEN /\ events' = <<"connect">>
            /\ txpc' = "connected"
            /\ UNCHANGED <<firstErr, outcome>>
       ELSE /\ events' = <<"connect:fail">>
            /\ txpc' = "done"
            /\ firstErr' = "E_connect"
            /\ outcome' = Threw("E_connect")
  /\ UNCHANGED <<depth, txView, snapshot, cbResult, pending>>
  /\ UNCHANGED <<crudVars, syncVars, stepVars>>

\* await queryRunner.startTransaction()  (before the try block as well)
TransactionStart ==
  /\ txpc = "connected"
  /\ \E ok \in BOOLEAN :
       IF ok
       THEN /\ events' = Append(events, "begin")
            /\ txpc' = "begun"
            /\ snapshot' = table
            /\ txView' = table
            /\ UNCHANGED <<firstErr, outcome>>
       ELSE /\ events' = Append(events, "begin:fail")
            /\ txpc' = "done"
            /\ firstErr' = "E_begin"
            /\ outcome' = Threw("E_begin")
            /\ UNCHANGED <<snapshot, txView>>
  /\ UNCHANGED <<depth, cbResult, pending>>
  /\ UNCHANGED <<crudVars, syncVars, stepVars>>

\* fn(transactionalAdapter) is entered
InvokeCallback ==
  /\ txpc = "begun"
  /\ events' = Append(events, "callback")
  /\ txpc' = "callback"
  /\ UNCHANGED <<depth, txView, snapshot, firstErr, cbResult, pending, outcome>>
  /\ UNCHANGED <<crudVars, syncVars, stepVars>>

\* Data a callback hands to the scoped create: a full record, with or without
\* a key the model schema does not declare.
ScopedCreateInputs ==
  {Partial(i, n, r) : i \in Ids, n \in NameVals, r \in RoleVals}
  \cup {Partial(i, n, r) @@ [nickname |-> "x"] :
          i \in Ids, n \in NameVals, r \in RoleVals}

\* transactionalAdapter.create: manager.getRepository(model).create + save
TxCreate ==
  /\ txpc = "callback"
  /\ \E values \in ScopedCreateInputs :
       /\ values["id"] \notin IdsOf(txView)
       /\ txView' = txView \cup {RepoCreate(values)}
       /\ last' = [op |-> "create", ok |-> TRUE, scoped |-> TRUE,
                   handed |-> DOMAIN values]
  /\ UNCHANGED <<table, renamed, softDelete>>
  /\ UNCHANGED <<txpc, events, depth, snapshot, firstErr, cbResult, pending, outcome>>
  /\ UNCHANGED <<syncVars, stepVars>>

\* transactionalAdapter.update / updateMany: repository.update on the scope
TxUpdate ==
  /\ txpc = "callback"
  /\ \E where \in Wheres \ {<<>>}, update \in UpdateInputs :
       txView' = RepoUpdate(txView, txConvertWhereToFindOptions(where), update).rows
  /\ UNCHANGED <<txpc, events, depth, snapshot, firstErr, cbResult, pending, outcome>>
  /\ UNCHANGED <<crudVars, syncVars, stepVars>>

\* transactionalAdapter.delete / deleteMany: repository.delete on the scope
TxDelete ==
  /\ txpc = "callback"
  /\ \E where \in Wheres \ {<<>>} :
       txView' = RepoDelete(txView, txConvertWhereToFindOptions(where)).rows
  /\ UNCHANGED <<txpc, events, depth, snapshot, firstErr, cbResult, pending, outcome>>
  /\ UNCHANGED <<crudVars, syncVars, stepVars>>

\* The repository call of an operation of the scoped dispatcher rejects: the
\* operation has no catch block, the callback receives the error as raised.
ScopedOperationFails ==
  /\ txpc = "callback"
  /\ \E op \in Operations :
       last' = [op |-> "failure", ok |-> FALSE, of |-> op, scoped |-> TRUE,
                model |-> "user", text |-> "E_repo", error |-> RawError("E_repo")]
  /\ UNCHANGED <<table, renamed, softDelete>>
  /\ UNCHANGED <<txVars, syncVars, stepVars>>

\* The mutant of NestedTransaction that runs the coordinator again.
NestedTransactionAcquires ==
  /\ txpc = "callback"
  /\ depth < MaxDepth
  /\ depth' = depth + 1
  /\ events' = events \o <<"connect", "begin">>
  /\ UNCHANGED <<txpc, txView, snapshot, firstErr, cbResult, pending, outcome>>
  /\ UNCHANGED <<crudVars, syncVars, stepVars>>

\* transactionalAdapter.transaction(callback): return callback(transactionalAdapter)
NestedTransaction ==
  /\ txpc = "callback"
  /\ depth < MaxDepth
  /\ depth' = depth + 1
  /\ UNCHANGED <<txpc, events, txView, snapshot, firstErr, cbResult, pending, outcome>>
  /\ UNCHANGED <<crudVars, syncVars, stepVars>>

\* a nested callback completes (its result or failure goes to the enclosing callback)
NestedCompletes ==
  /\ txpc = "callback"
  /\ depth > 0
  /\ depth' = depth - 1
  /\ UNCHANGED <<txpc, events, txView, snapshot, firstErr, cbResult, pending, outcome>>
  /\ UNCHANGED <<crudVars, syncVars, stepVars>>

\* const result = await fn(transactionalAdapter): the callback returns
CallbackReturns ==
  /\ txpc = "callback"
  /\ depth = 0
  /\ \E r \in Results : cbResult' = r
  /\ txpc' = "commit"
  /\ UNCHANGED <<events, depth, txView, snapshot, firstErr, pending, outcome>>
  /\ UNCHANGED <<crudVars, syncVars, stepVars>>

\* the callback throws (at any nesting depth, uncaught on the way out)
CallbackThrows ==
  /\ txpc = "callback"
  /\ firstErr' = "E_cb"
  /\ depth' = 0
  /\ txpc' = "rollback"
  /\ UNCHANGED <<events, txView, snapshot, cbResult, pending, outcome>>
  /\ UNCHANGED <<crudVars, syncVars, stepVars>>

\* The mutant of TransactionCommit that forgets to return the result.
TransactionCommitDropsResult ==
  /\ txpc = "commit"
  /\ \E ok \in BOOLEAN :
       IF ok
       THEN /\ events' = Append(events, "commit")
            /\ table' = txView
            /\ pending' = Returned("none")
            /\ txpc' = "release"
            /\ UNCHANGED firstErr
       ELSE /\ events' = Append(events, "commit:fail")
            /\ firstErr' = "E_commit"
            /\ txpc' = "rollback"
            /\ UNCHANGED <<table, pending>>
  /\ UNCHANGED <<depth, txView, snapshot, cbResult, outcome>>
  /\ UNCHANGED <<renamed, softDelete, last, syncVars, stepVars>>

\* await queryRunner.commitTransaction(); return result
\* (a commit that fails has made nothing visible, and lands in the catch block)
TransactionCommit ==
  /\ txpc = "commit"
  /\ \E ok \in BOOLEAN :
       IF ok
       THEN /\ events' = Append(events, "commit")
            /\ table' = txView
            /\ pending' = Returned(cbResult)
            /\ txpc' = "release"
            /\ UNCHANGED firstErr
       ELSE /\ events' = Append(events, "commit:fail")
            /\ firstErr' = "E_commit"
            /\ txpc' = "rollback"
            /\ UNCHANGED <<table, pending>>
  /\ UNCHANGED <<depth, txView, snapshot, cbResult, outcome>>
  /\ UNCHANGED <<renamed, softDelete, last, syncVars, stepVars>>

\* The mutant of TransactionRollback that commits in the catch block.
TransactionRollbackCommits ==
  /\ txpc = "rollback"
  /\ events' = Append(events, "rollback")
  /\ table' = txView
  /\ pending' = Threw(firstErr)
  /\ txpc' = "release"
  /\ UNCHANGED <<depth, txView, snapshot, firstErr, cbResult, outcome>>
  /\ UNCHANGED <<renamed, softDelete, last, syncVars, stepVars>>

\* catch (error) { await queryRunner.rollbackTransaction(); throw error; }
\* (a rollback that fails replaces the error in flight; nothing is committed)
TransactionRollback ==
  /\ txpc = "rollback"
  /\ \E ok \in BOOLEAN :
       IF ok
       THEN /\ events' = Append(events, "rollback")
            /\ pending' = Threw(firstErr)
       ELSE /\ events' = Append(events, "rollback:fail")
            /\ pending' = Threw("E_rollback")
  /\ txpc' = "release"
  /\ UNCHANGED <<table, depth, txView, snapshot, firstErr, cbResult, outcome>>
  /\ UNCHANGED <<renamed, softDelete, last, syncVars, stepVars>>

\* finally { await queryRunner.release(); }
\* (a release that fails replaces the completion the try/catch settled on)
TransactionRelease ==
  /\ txpc = "release"
  /\ \E ok \in BOOLEAN :
       IF ok
       THEN /\ events' = Append(events, "release")
            /\ outcome' = pending
            /\ UNCHANGED firstErr
       ELSE /\ events' = Append(events, "release:fail")
            /\ outcome' = Threw("E_release")
            /\ firstErr' = IF firstErr = "none" THEN "E_release" ELSE firstErr
  /\ txpc' = "done"
  /\ UNCHANGED <<depth, txView, snapshot, cbResult, pending>>
  /\ UNCHANGED <<crudVars, syncVars, stepVars>>

\* ---------------------------------------------------- the schema synchronizer
SyncModels == {"user", "account"}
SyncFields == {"name", "phone"}

\* field.fieldName || fieldName
dbFieldOf(f) == fieldNameOf(f)

\* The columns a live table can have besides id.
LiveCols == {"name", "full_name", "phone"}
\* A live table always has its id column; the empty set stands for a table that
\* does not exist (queryRunner.hasTable is false).
CatalogStates == {{}} \cup {{"id"} \cup c : c \in SUBSET LiveCols}
TableExists(m) == catalog[m] # {}

\* The mutant of AddColumns that looks the logical name up among the columns.
AddColumnsByLogicalName(fields, existingColumns) ==
  {f \in fields : f \notin existingColumns}

\* addColumns: the expected fields whose column is not among the live columns
AddColumns(fields, existingColumns) ==
  {f \in fields : dbFieldOf(f) \notin existingColumns}

\* The mutant of DropColumns that does not pass over id.
DropColumnsWithId(fields, existingColumns) ==
  {c \in existingColumns : ~\E f \in fields : dbFieldOf(f) = c}

\* dropColumns: the live columns other than id that are no expected field's column
DropColumns(fields, existingColumns) ==
  {c \in existingColumns : c # "id" /\ ~\E f \in fields : dbFieldOf(f) = c}

\* The migration createSchema writes for model m (a set: empty when it writes
\* none).  addColumns holds the column names generateMigration emits
\* (field.fieldName || name).
MigrationFor(m) ==
  IF ~TableExists(m)
  THEN {[model |-> m, action |-> "create",
         addColumns |-> {dbFieldOf(f) : f \in expected[m]}, dropColumns |-> {}]}
  ELSE LET add == AddColumns(expected[m], catalog[m])
           drop == DropColumns(expected[m], catalog[m])
       IN IF add # {} \/ drop # {}
          THEN {[model |-> m, action |-> "alter",
                 addColumns |-> {dbFieldOf(f) : f \in add}, dropColumns |-> drop]}
          ELSE {}

\* The changelog entries of model m (a set: empty when the model adds none).
LogEntryFor(m) ==
  IF MigrationFor(m) # {}
  THEN {[model |-> m, entry |-> IF TableExists(m) THEN "ALTER Migration"
                                 ELSE "CREATE Migration"]}
  ELSE IF entityFile[m] = "stale" THEN {[model |-> m, entry |-> "Updated entity"]}
  ELSE IF entityFile[m] = "none" THEN {[model |-> m, entry |-> "Generated missing entity"]}
  ELSE {}

FileName(ts, mig) == [ts |-> ts, action |-> mig.action, model |-> mig.model]

\* The pairs <<m, f>>: the live table of m has exactly the columns of the
\* expected fields of m but for field f.
OneFieldShort ==
  {<<m, f>> \in SyncModels \X SyncFields :
     /\ f \in expected[m]
     /\ TableExists(m)
     /\ catalog[m] = {"id"} \cup {dbFieldOf(g) : g \in expected[m] \ {f}}}

\* createSchema: one pass over the expected tables; every branch writes the
\* entity file, so every entity file is current afterwards.
Synchronize ==
  \E ts \in clock..MaxClock :
    LET migs == UNION {MigrationFor(m) : m \in SyncModels}
        names == {FileName(ts, mig) : mig \in migs}
    IN /\ clock' = ts
       /\ syncWrote' = migs
       /\ syncNew' = names \ disk
       /\ disk' = disk \cup names
       /\ syncLog' = UNION {LogEntryFor(m) : m \in SyncModels}
       /\ entityFile' = [m \in SyncModels |-> "current"]
       /\ stable' = IF stable < 2 THEN stable + 1 ELSE stable
       /\ chain' = IF chain = "applied" THEN "resynced"
                   ELSE IF OneFieldShort # {} THEN "synced" ELSE "none"
       /\ extra' = IF chain = "applied" THEN extra ELSE OneFieldShort
       /\ UNCHANGED <<catalog, expected, ran>>
       /\ UNCHANGED <<crudVars, txVars, stepVars>>

\* The forward (up) part of a generated migration, applied to the live catalog:
\* createTable with id and every field's column, or addColumn / dropColumn.
ApplyUp(cols, mig) ==
  IF mig.action = "create" THEN {"id"} \cup mig.addColumns
  ELSE (cols \cup mig.addColumns) \ mig.dropColumns

\* No migration has been run.
NoRun == [migs |-> {}, prior |-> [m \in SyncModels |-> {}], state |-> "none"]

\* The mutant of MigrationDown that leaves the added columns in place.
MigrationDownKeepsAdded(mig) ==
  [dropTable |-> mig.action = "create",
   dropColumns |-> {},
   addColumns |-> IF mig.action = "alter"
                  THEN {[name |-> c, type |-> "text", isNullable |-> TRUE] :
                          c \in mig.dropColumns}
                  ELSE {}]

\* The reverse (down) part generateMigration writes: dropTable for create; for
\* alter a dropColumn per added column and an addColumn, as nullable text, per
\* dropped column.
MigrationDown(mig) ==
  [dropTable |-> mig.action = "create",
   dropColumns |-> IF mig.action = "alter" THEN mig.addColumns ELSE {},
   addColumns |-> IF mig.action = "alter"
                  THEN {[name |-> c, type |-> "text", isNullable |-> TRUE] :
                          c \in mig.dropColumns}
                  ELSE {}]

\* The down part applied to the live catalog.
ApplyDown(cols, down) ==
  IF down.dropTable THEN {}
  ELSE (cols \ down.dropColumns) \cup {c.name : c \in down.addColumns}

\* The migrations last run are reverted.
RevertMigrations ==
  /\ ran.state = "up"
  /\ catalog' = [m \in SyncModels |->
                   IF \E mig \in ran.migs : mig.model = m
                   THEN ApplyDown(catalog[m],
                                  MigrationDown(CHOOSE mig \in ran.migs : mig.model = m))
                   ELSE catalog[m]]
  /\ ran' = [ran EXCEPT !.state = "down"]
  /\ stable' = 0
  /\ chain' = "none"
  /\ UNCHANGED <<expected, entityFile, clock, disk, syncLog, syncWrote, syncNew, extra>>
  /\ UNCHANGED <<crudVars, txVars, stepVars>>

\* The migrations of the last synchronize call are run against the database.
RunMigrations ==
  /\ syncWrote # {}
  /\ catalog' = [m \in SyncModels |->
                   IF \E mig \in syncWrote : mig.model = m
                   THEN ApplyUp(catalog[m], CHOOSE mig \in syncWrote : mig.model = m)
                   ELSE catalog[m]]
  /\ syncWrote' = {}
  /\ stable' = 0
  /\ chain' = IF chain = "synced" THEN "applied" ELSE "none"
  /\ ran' = [migs |-> syncWrote, prior |-> catalog, state |-> "up"]
  /\ UNCHANGED <<expected, entityFile, clock, disk, syncLog, syncNew, extra>>
  /\ UNCHANGED <<crudVars, txVars, stepVars>>

\* --------------------------------- the input transformer over any schema
\* A field's defaultValue: none, a literal (truthy or falsy in JavaScript), or
\* a producer function that is called for the value.
NoDefault == [kind |-> "none", value |-> Undef]
Literal(v) == [kind |-> "literal", value |-> v]
Callable(v) == [kind |-> "callable", value |-> v]
JsFalsy == {"false", "0", "", Undef, Null}
DefaultValues == {NoDefault, Literal("user"), Literal("false"), Callable("made")}

\* !field.defaultValue is false: a function is truthy whatever it returns
HasTruthyDefault(field) ==
  \/ field.defaultValue.kind = "callable"
  \/ field.defaultValue.kind = "literal" /\ field.defaultValue.value \notin JsFalsy

\* The mutant of withApplyDefaultOf that does not look at the action.
withApplyDefaultOnUpdateToo(value, field, action) ==
  IF (value = Undef \/ value = Null) /\ HasTruthyDefault(field)
  THEN [value |-> field.defaultValue.value,
        called |-> IF field.defaultValue.kind = "callable" THEN 1 ELSE 0]
  ELSE [value |-> value, called |-> 0]

\* withApplyDefault(value, field, action): the value, and how many times the
\* producer function was called.
withApplyDefaultOf(value, field, action) ==
  IF action = "update" THEN [value |-> value, called |-> 0]
  ELSE IF (value = Undef \/ value = Null) /\ HasTruthyDefault(field)
       THEN [value |-> field.defaultValue.value,
             called |-> IF field.defaultValue.kind = "callable" THEN 1 ELSE 0]
       ELSE [value |-> value, called |-> 0]

\* The fields the loop of transformInput does not pass over with `continue`.
EmittedOf(fields, data, action) ==
  {f \in DOMAIN fields :
     ~(Get(data, f) = Undef /\ (~HasTruthyDefault(fields[f]) \/ action = "update"))}

\* transformInput(data, model, action) for the model whose schema fields are
\* `fields`: the physical record, and the calls made to each field's producer.
transformInputOf(fields, data, action, useDatabaseGeneratedId) ==
  LET emitted == EmittedOf(fields, data, action)
      seed == IF useDatabaseGeneratedId \/ action = "update" THEN {} ELSE {"id"}
      cols == seed \cup {fields[f].fieldName : f \in emitted}
      of(c) == CHOOSE f \in emitted : fields[f].fieldName = c
  IN [record |-> [c \in cols |->
                    IF \E f \in emitted : fields[f].fieldName = c
                    THEN withApplyDefaultOf(Get(data, of(c)), fields[of(c)], action).value
                    ELSE Get(data, "id")],
      calls |-> [f \in DOMAIN fields |->
                   IF f \in emitted
                   THEN withApplyDefaultOf(Get(data, f), fields[f], action).called
                   ELSE 0]]

\* Schemas of two fields, each under its own name or another column name, with
\* each kind of default; data with each field absent, null or given.
SchemaFieldNames == {"label", "kind"}
ColumnOf(f, other) == IF other THEN IF f = "label" THEN "label_col" ELSE "kind_col" ELSE f
FieldAttributes(f) ==
  {[fieldName |-> ColumnOf(f, other), defaultValue |-> d] :
     other \in BOOLEAN, d \in DefaultValues}
Schemas ==
  {[f \in SchemaFieldNames |-> IF f = "label" THEN a ELSE b] :
     a \in FieldAttributes("label"), b \in FieldAttributes("kind")}
GivenValues == {Undef, Null, "given"}
DataOf(i, a, b) ==
  LET full == [k \in {"id"} \cup SchemaFieldNames |->
                 IF k = "id" THEN i ELSE IF k = "label" THEN a ELSE b]
  IN [k \in {p \in DOMAIN full : full[p] # Undef} |-> full[k]]
TransformData == {DataOf(i, a, b) : i \in {Undef, "1"}, a \in GivenValues, b \in GivenValues}

\* One evaluation of transformInput.
TransformInputCall ==
  /\ last.op = "none"
  /\ \E fields \in Schemas, data \in TransformData, action \in {"create", "update"},
        useDatabaseGeneratedId \in BOOLEAN :
       LET res == transformInputOf(fields, data, action, useDatabaseGeneratedId)
       IN last' = [op |-> "transformInput", ok |-> TRUE, fields |-> fields,
                   data |-> data, action |-> action,
                   useDatabaseGeneratedId |-> useDatabaseGeneratedId,
                   record |-> res.record, calls |-> res.calls]
  /\ UNCHANGED <<table, renamed, softDelete>>
  /\ UNCHANGED <<txVars, syncVars, stepVars>>

\* ------------------------------------------- update, one await at a time
\* update with one where-clause, up to the first await: the pre-read
\* (repository.findOne with the compiled predicate).
UpdatePreRead ==
  /\ updating.pc = "idle"
  /\ \E where \in {w \in Wheres : PreReads(w)}, update \in UpdateInputs :
       LET fo == FindOptionsOf(convertWhereToFindOptions(where))
           found == RepoFind(table, fo)
       IN updating' = [pc |-> IF found # {} THEN "found" ELSE "missed",
                       where |-> where, update |-> update,
                       preread |-> IdsOf(found), affected |-> 0, writes |-> 0,
                       some |-> FALSE]
  /\ UNCHANGED crudVars
  /\ UNCHANGED <<txVars, syncVars, initVars, schemaVars>>

\* await repository.update(findOptions, entityData): inside the if when the
\* pre-read found a row, after it (followed by return null) when it found none.
UpdateWrite ==
  /\ updating.pc \in {"found", "missed"}
  /\ LET fo == FindOptionsOf(convertWhereToFindOptions(updating.where))
         res == RepoUpdate(table, fo, EntityData(updating.update, "update"))
     IN /\ table' = res.rows
        /\ updating' = [updating EXCEPT
                          !.pc = IF updating.pc = "found" THEN "reread" ELSE "done",
                          !.affected = res.affected,
                          !.writes = 1]
  /\ UNCHANGED <<renamed, softDelete, last>>
  /\ UNCHANGED <<txVars, syncVars, initVars, schemaVars>>

\* the re-read by the same predicate: its row is returned; when it finds none
\* the call falls through to the second repository.update and returns null.
UpdateReRead ==
  /\ updating.pc = "reread"
  /\ LET fo == FindOptionsOf(convertWhereToFindOptions(updating.where))
         res == RepoUpdate(table, fo, EntityData(updating.update, "update"))
     IN IF RepoFind(table, fo) # {}
        THEN /\ updating' = [updating EXCEPT !.pc = "done", !.some = TRUE]
             /\ UNCHANGED table
        ELSE /\ updating' = [updating EXCEPT !.pc = "done", !.writes = 2]
             /\ table' = res.rows
  /\ UNCHANGED <<renamed, softDelete, last>>
  /\ UNCHANGED <<txVars, syncVars, initVars, schemaVars>>

\* Another caller's create completes while the update is at one of its awaits.
ConcurrentCreate ==
  /\ \E i \in Ids \ IdsOf(table), n \in NameVals, r \in RoleVals :
       table' = table \cup {RepoCreate(Partial(i, n, r))}
  /\ UNCHANGED <<renamed, softDelete, last>>
  /\ UNCHANGED <<txVars, syncVars, stepVars>>

\* ------------------------------ schema synchronize, one await at a time
\* Whether createSchema writes a file for model m: a migration with the entity
\* file, or the entity file alone when it is missing or differs.
WritesFor(m) == MigrationFor(m) # {} \/ entityFile[m] # "current"

\* createSchema up to the loop: Date.now(), the directories, createQueryRunner
\* and connect.  A connect that rejects lands in the catch block with no
\* connection acquired.
SchemaConnect ==
  /\ introspection.pc = "idle"
  /\ \E ts \in clock..MaxClock, ok \in BOOLEAN :
       /\ clock' = ts
       /\ introspection' = [pc |-> IF ok THEN "loop" ELSE "failed", acquired |-> ok,
                            released |-> 0, todo |-> SyncModels]
  /\ syncLog' = {}
  /\ syncWrote' = {}
  /\ syncNew' = {}
  /\ UNCHANGED <<catalog, expected, entityFile, disk, stable, chain, extra, ran>>
  /\ UNCHANGED <<updating, dataSource, callers>>
  /\ UNCHANGED <<crudVars, txVars>>

\* One turn of the loop over the expected tables: hasTable / getTable, then
\* the files of the model.  A catalog query or a file write that fails lands
\* in the catch block, which throws and releases nothing.
SchemaVisit ==
  /\ introspection.pc = "loop"
  /\ \E m \in introspection.todo, result \in {"ok", "catalogFails", "writeFails"} :
       /\ result = "writeFails" => WritesFor(m)
       /\ IF result = "ok"
          THEN LET names == {FileName(clock, mig) : mig \in MigrationFor(m)}
               IN /\ introspection' = [introspection EXCEPT
                                         !.todo = introspection.todo \ {m}]
                  /\ syncWrote' = syncWrote \cup MigrationFor(m)
                  /\ syncNew' = syncNew \cup (names \ disk)
                  /\ disk' = disk \cup names
                  /\ syncLog' = syncLog \cup LogEntryFor(m)
                  /\ entityFile' = [entityFile EXCEPT ![m] = "current"]
          ELSE /\ introspection' = [introspection EXCEPT !.pc = "failed"]
               /\ UNCHANGED <<syncWrote, syncNew, disk, syncLog, entityFile>>
  /\ UNCHANGED <<catalog, expected, clock, stable, chain, extra, ran>>
  /\ UNCHANGED <<updating, dataSource, callers>>
  /\ UNCHANGED <<crudVars, txVars>>

\* After the loop: await queryRunner.release(), then the changelog is returned.
SchemaRelease ==
  /\ introspection.pc = "loop"
  /\ introspection.todo = {}
  /\ introspection' = [introspection EXCEPT
                         !.pc = "returned", !.released = introspection.released + 1]
  /\ UNCHANGED syncVars
  /\ UNCHANGED <<updating, dataSource, callers>>
  /\ UNCHANGED <<crudVars, txVars>>

\* ------------------------------------- the data source's initialization
\* The operations that start with the isInitialized test.
GuardedOperations == Operations \cup {"createSchema"}

\* if (!dataSource.isInitialized) { await dataSource.initialize(); }: the
\* test and the invocation run without an await in between; the caller then
\* waits for the initialization.
OperationStarts(c) ==
  /\ callers[c].at = "idle"
  /\ \E op \in GuardedOperations :
       IF dataSource.isInitialized
       THEN /\ callers' = [callers EXCEPT ![c] = [op |-> op, at |-> "running"]]
            /\ UNCHANGED dataSource
       ELSE /\ callers' = [callers EXCEPT ![c] = [op |-> op, at |-> "initializing"]]
            /\ dataSource' = [dataSource EXCEPT
                                !.initializeCalls = dataSource.initializeCalls + 1]
  /\ UNCHANGED <<updating, introspection>>
  /\ UNCHANGED <<crudVars, txVars, syncVars>>

\* The initialization a caller waits for settles: the data source is
\* initialized; an initialize invoked on a data source that another call has
\* initialized in the meantime may succeed or be rejected.
InitializeSettles(c) ==
  /\ callers[c].at = "initializing"
  /\ \E rejected \in BOOLEAN :
       /\ rejected => dataSource.isInitialized
       /\ callers' = [callers EXCEPT ![c].at = IF rejected THEN "failed" ELSE "running"]
  /\ dataSource' = [dataSource EXCEPT !.isInitialized = TRUE]
  /\ UNCHANGED <<updating, introspection>>
  /\ UNCHANGED <<crudVars, txVars, syncVars>>

\* The rest of the operation runs to its end.
OperationCompletes(c) ==
  /\ callers[c].at = "running"
  /\ callers' = [callers EXCEPT ![c].at = "done"]
  /\ UNCHANGED <<updating, dataSource, introspection>>
  /\ UNCHANGED <<crudVars, txVars, syncVars>>

\* ------------------------------------------------------- the specifications
TxIdle ==
  /\ txpc = "idle"
  /\ events = <<>>
  /\ depth = 0
  /\ txView = {}
  /\ snapshot = {}
  /\ firstErr = "none"
  /\ cbResult = "none"
  /\ pending = NoOutcome
  /\ outcome = NoOutcome

SyncIdle ==
  /\ catalog = [m \in SyncModels |-> {}]
  /\ expected = [m \in SyncModels |-> {}]
  /\ entityFile = [m \in SyncModels |-> "none"]
  /\ clock = 0
  /\ disk = {}
  /\ syncLog = {}
  /\ syncWrote = {}
  /\ syncNew = {}
  /\ stable = 0
  /\ chain = "none"
  /\ extra = {}
  /\ ran = NoRun

NotUpdating == [pc |-> "idle"]

\* The concurrent callers, and a caller that has started no operation.
Callers == 1..MaxCallers
NotStarted == [op |-> "none", at |-> "idle"]
\* A data source that was constructed and not initialized.
Constructed == [isInitialized |-> FALSE, initializeCalls |-> 0]
NotSynchronizing == [pc |-> "idle", acquired |-> FALSE, released |-> 0, todo |-> {}]

StepIdle ==
  /\ updating = NotUpdating
  /\ dataSource = Constructed
  /\ callers = [c \in Callers |-> NotStarted]
  /\ introspection = NotSynchronizing

\* create and findOne over a fresh table, for either field mapping.
Init ==
  /\ table = {}
  /\ renamed \in BOOLEAN
  /\ softDelete = "off"
  /\ last = NoCall
  /\ TxIdle
  /\ SyncIdle
  /\ StepIdle

Next ==
  \/ Create
  \/ FindOne

Spec == Init /\ [][Next]_vars

\* update over any stored table, for either field mapping.
InitUpdate ==
  /\ table \in Tables
  /\ renamed \in BOOLEAN
  /\ softDelete = "off"
  /\ last = NoCall
  /\ TxIdle
  /\ SyncIdle
  /\ StepIdle

NextUpdate == Update

SpecUpdate == InitUpdate /\ [][NextUpdate]_vars

\* The bulk writes and count over any stored table, for either soft-delete
\* configuration.
InitBulk ==
  /\ table \in Tables
  /\ renamed = FALSE
  /\ softDelete \in {"off", "noColumn"}
  /\ last = NoCall
  /\ TxIdle
  /\ SyncIdle
  /\ StepIdle

NextBulk ==
  \/ OperationFails
  \/ FindMany
  \/ UpdateMany
  \/ Delete
  \/ DeleteMany
  \/ Count

SpecBulk == InitBulk /\ [][NextBulk]_vars

\* The predicate compiler on its own.
InitCompile ==
  /\ table = {}
  /\ renamed \in BOOLEAN
  /\ softDelete = "off"
  /\ last = NoCall
  /\ TxIdle
  /\ SyncIdle
  /\ StepIdle

NextCompile ==
  \/ CompileWhere
  \/ CompilePattern
  \/ ResolveName

SpecCompile == InitCompile /\ [][NextCompile]_vars

\* The tables a transactional call starts from: empty or one row.
TxTables == {t \in Tables : Cardinality(t) <= 1}

\* One transactional call over any stored table.
InitTx ==
  /\ table \in TxTables
  /\ renamed = FALSE
  /\ softDelete = "off"
  /\ last = NoCall
  /\ TxIdle
  /\ SyncIdle
  /\ StepIdle

NextTx ==
  \/ ScopedOperationFails
  \/ TransactionConnect
  \/ TransactionStart
  \/ InvokeCallback
  \/ TxCreate
  \/ TxUpdate
  \/ TxDelete
  \/ NestedTransaction
  \/ NestedCompletes
  \/ CallbackReturns
  \/ CallbackThrows
  \/ TransactionCommit
  \/ TransactionRollback
  \/ TransactionRelease

SpecTx == InitTx /\ [][NextTx]_vars

\* Synchronize calls over any live catalog, expected schema and entity files.
InitSync ==
  /\ table = {}
  /\ renamed \in BOOLEAN
  /\ softDelete = "off"
  /\ last = NoCall
  /\ TxIdle
  /\ catalog \in [SyncModels -> CatalogStates]
  /\ expected \in [SyncModels -> SUBSET SyncFields]
  /\ entityFile \in [SyncModels -> {"none", "stale", "current"}]
  /\ clock = 0
  /\ disk = {}
  /\ syncLog = {}
  /\ syncWrote = {}
  /\ syncNew = {}
  /\ stable = 0
  /\ chain = "none"
  /\ extra = {}
  /\ ran = NoRun
  /\ StepIdle

\* transformInput over every schema and data of the bounded sets.
InitTransform ==
  /\ table = {}
  /\ renamed = FALSE
  /\ softDelete = "off"
  /\ last = NoCall
  /\ TxIdle
  /\ SyncIdle
  /\ StepIdle

NextTransform == TransformInputCall

SpecTransform == InitTransform /\ [][NextTransform]_vars

\* One schema-synchronize call over any live catalog and expected schema.
InitSchema ==
  /\ table = {}
  /\ renamed = FALSE
  /\ softDelete = "off"
  /\ last = NoCall
  /\ TxIdle
  /\ catalog \in [SyncModels -> CatalogStates]
  /\ expected \in [SyncModels -> SUBSET SyncFields]
  /\ entityFile \in [SyncModels -> {"none", "current"}]
  /\ clock = 0
  /\ disk = {}
  /\ syncLog = {}
  /\ syncWrote = {}
  /\ syncNew = {}
  /\ stable = 0
  /\ chain = "none"
  /\ extra = {}
  /\ ran = NoRun
  /\ StepIdle

NextSchema ==
  \/ SchemaConnect
  \/ SchemaVisit
  \/ SchemaRelease

SpecSchema == InitSchema /\ [][NextSchema]_vars

\* Concurrent operations on a data source that is not initialized.
InitStartup ==
  /\ table = {}
  /\ renamed = FALSE
  /\ softDelete = "off"
  /\ last = NoCall
  /\ TxIdle
  /\ SyncIdle
  /\ StepIdle

NextStartup ==
  \E c \in Callers :
    \/ OperationStarts(c)
    \/ InitializeSettles(c)
    \/ OperationCompletes(c)

SpecStartup == InitStartup /\ [][NextStartup]_vars

\* One single-clause update among other callers' creates.
InitRace ==
  /\ table \in Tables
  /\ renamed = FALSE
  /\ softDelete = "off"
  /\ last = NoCall
  /\ TxIdle
  /\ SyncIdle
  /\ StepIdle

NextRace ==
  \/ UpdatePreRead
  \/ UpdateWrite
  \/ UpdateReRead
  \/ ConcurrentCreate

SpecRace == InitRace /\ [][NextRace]_vars

NextSync ==
  \/ Synchronize
  \/ RunMigrations
  \/ RevertMigrations

SpecSync == InitSync /\ [][NextSync]_vars

\* ------------------------------------------------------------- properties
Completed == txpc = "done"
CallbackFailedOrCommitFailed == firstErr \in {"E_cb", "E_commit"}
CallbackSucceeded == cbResult # "none"
Ordered == <<"connect", "begin", "callback", "commit", "release">>

\* C1, as stated: whenever the callback or the commit after it fails, the
\* coordinator has rolled back and released the connection by the time the call
\* completes, and the caller receives that failure itself.  (Does not hold: a
\* rollback or release that fails replaces the failure the caller receives.)
C1_OriginalFailurePropagates ==
  (Completed /\ CallbackFailedOrCommitFailed) =>
    /\ Has(events, "rollback")
    /\ Has(events, "release")
    /\ outcome = Threw(firstErr)

\* C2, as stated: whenever the callback completes successfully, the events of
\* the call are connect, begin, callback, commit, release in this order, no
\* rollback is issued and the call returns the callback's result.  (Does not
\* hold: a commit that fails is followed by a rollback.)
C2_SuccessOrderAsStated ==
  (Completed /\ CallbackSucceeded) =>
    /\ events = Ordered
    /\ outcome = Returned(cbResult)

\* C2, amended: whenever the callback completes successfully and the commit
\* succeeds, the events are connect, begin, callback, commit and then the
\* release, no rollback is issued, and when the release succeeds the call
\* returns exactly the callback's result.
C2_SuccessOrder ==
  (Completed /\ Has(events, "commit")) =>
    /\ CallbackSucceeded
    /\ Len(events) = 5
    /\ SubSeq(events, 1, 4) = SubSeq(Ordered, 1, 4)
    /\ events[5] \in {"release", "release:fail"}
    /\ ~Has(events, "rollback")
    /\ (events[5] = "release" => outcome = Returned(cbResult))

C2_Witness ==
  /\ Completed
  /\ events = Ordered
  /\ outcome.kind = "return"
  /\ outcome.value \in Results

\* C3, as stated: after a call that began a transaction completes, every write
\* of the callback is visible when the callback succeeded and none is when the
\* callback failed.  (Does not hold: after a callback that succeeded, a commit
\* that fails leaves none of its writes visible.)
C3_AtomicByCallbackOutcome ==
  (Completed /\ Has(events, "callback")) =>
    IF CallbackSucceeded THEN table = txView ELSE table = snapshot

\* C3, amended: after a call that began a transaction completes, every write of
\* the callback is visible when the commit succeeded, and none of them is when
\* it did not (the callback failed or the commit failed), for every sequence of
\* create/update/delete operations of the callback.
C3_Atomic ==
  (Completed /\ Has(events, "callback")) =>
    IF Has(events, "commit") THEN table = txView ELSE table = snapshot

C3_Witness ==
  /\ Completed
  /\ Has(events, "rollback")
  /\ txView # snapshot
  /\ table = snapshot

\* C4: while the callback runs, at any nesting depth of transaction calls on the
\* scoped dispatcher, the query-runner calls issued so far are the outer call's
\* connect and begin only: a nested call acquires no connection, begins no
\* transaction and issues no commit, rollback or release.
C4_NestedReusesScope ==
  txpc = "callback" => events = <<"connect", "begin", "callback">>

C4_Witness ==
  /\ txpc = "callback"
  /\ depth >= 2

\* C5, as stated: an update with exactly one where-clause returns the
\* post-update record of a row that matched the clause when the call started
\* (compared on id and on the fields stored under their own name), and null
\* when no row matched.  (Does not hold: when the update changes the filtered
\* field the re-read by the same clause finds nothing and the call returns null.)
C5_UpdateReturnsPostUpdateRecord ==
  (last.op = "update" /\ last.ok /\ last.nwhere = 1) =>
    IF last.matched # {}
    THEN /\ last.some
         /\ \E r \in table :
              /\ r["id"] \in last.matched
              /\ \A k \in Props : fieldNameOf(k) = k => Get(last.ret, k) = r[k]
    ELSE ~last.some

C7_RoundTrip ==
  (last.op = "findOne" /\ last.chained /\ last.select = {}) =>
    /\ last.some
    /\ \A f \in Fields \cap DOMAIN last.createdData :
         Get(last.ret, f) = last.createdData[f]

\* C8: the record a read returns has no key outside a non-empty select-list,
\* and has the key id when the select-list is empty or contains id.
C8_SelectKeys ==
  (last.op = "findOne" /\ last.some) =>
    /\ (last.select # {} => DOMAIN last.ret \subseteq last.select)
    /\ ((last.select = {} \/ "id" \in last.select) => "id" \in DOMAIN last.ret)

C8_Witness ==
  /\ last.op = "findOne"
  /\ last.some
  /\ last.select = {"name"}
  /\ DOMAIN last.ret = {"name"}

\* C9, as stated: the second of two synchronize calls with no drift in between
\* has an empty changelog and writes no new migration file.  (Does not hold: an
\* expected table missing from the live catalog gets a create migration and a
\* changelog entry on every call.)
C9_Idempotent ==
  stable >= 2 => (syncLog = {} /\ syncNew = {})

\* C10: when the live table of a model has every expected column but the one of
\* field f, synchronize writes for that model exactly one migration, an alter
\* migration that adds exactly the column of f and drops none; and once the
\* migrations are applied to the live catalog, the next synchronize writes no
\* migration and reports no change for that model.
C10_OneAlterThenNone ==
  \A p \in extra :
    /\ chain = "synced" =>
         {mig \in syncWrote : mig.model = p[1]} =
           {[model |-> p[1], action |-> "alter",
             addColumns |-> {dbFieldOf(p[2])}, dropColumns |-> {}]}
    /\ chain = "resynced" =>
         /\ ~\E mig \in syncWrote : mig.model = p[1]
         /\ ~\E e \in syncLog : e.model = p[1]

C10_Witness ==
  /\ chain = "resynced"
  /\ extra # {}
  /\ syncWrote = {}

IsInfix(v, t) == \E i \in 0..(Len(t) - Len(v)) : SubSeq(t, i + 1, i + Len(v)) = v
IsPrefix(v, t) == Len(v) <= Len(t) /\ SubSeq(t, 1, Len(v)) = v
IsSuffix(v, t) == Len(v) <= Len(t) /\ SubSeq(t, Len(t) - Len(v) + 1, Len(t)) = v

\* C11, as stated: for every text value v the predicate compiled for contains
\* matches exactly the columns that hold v as a substring, the one for
\* starts_with exactly those that start with v, and the one for ends_with
\* exactly those that end with v.  (Does not hold: a "%" or "_" in v goes into
\* the pattern unescaped and matches other characters.)
C11_PatternOperatorsExact ==
  last.op = "pattern" =>
    (last.matches <=>
       IF last.operator = "contains" THEN IsInfix(last.value, last.column)
       ELSE IF last.operator = "starts_with" THEN IsPrefix(last.value, last.column)
       ELSE IsSuffix(last.value, last.column))

\* C12, as stated: a failure of the repository call of any operation, on the
\* plain and on the scoped dispatcher, reaches the caller as an error that names
\* the operation and the model and holds the original error text.  (Does not
\* hold: the operations of the scoped dispatcher catch nothing.)
C12_FailuresAreWrapped ==
  last.op = "failure" =>
    /\ last.error.wrapped
    /\ last.error.prefix = FailedTo(last.of)
    /\ last.error.model = last.model
    /\ last.error.text = last.text

IsSchemaError(res) == res.kind = "Error" /\ res.value = "Model not found in schema"

\* C13, as stated: resolving a name fails with a schema error whenever the
\* model is not declared, and whenever the field (other than id) is not
\* declared in a known model, and issues no repository call.  (Does not hold: an
\* undeclared field fails with a TypeError, and id resolves in an undeclared
\* model.)
C13_UndeclaredNamesFail ==
  (/\ last.op = "resolve"
   /\ \/ last.model \notin SchemaModels
      \/ (last.what = "field" /\ last.field \notin Fields \cup {"id"}))
  => (IsSchemaError(last.result) /\ ~last.issued)

\* C14: when the model is marked for soft-delete and its repository has no
\* deletedAt column, every delete and deleteMany fails, issues neither a delete
\* nor a soft-delete to the repository, and leaves every row of the table as it
\* was.
C14_MisconfiguredSoftDeleteTouchesNothing ==
  [][(softDelete = "noColumn" /\ last'.op \in {"delete", "deleteMany"}) =>
       (~last'.ok /\ last'.issued = <<>> /\ table' = table)]_vars

C14_Witness ==
  /\ softDelete = "noColumn"
  /\ last.op = "deleteMany"
  /\ ~last.ok
  /\ table # {}

\* The runs of a non-empty clause sequence: a run ends just before each later
\* clause whose connector is OR.
RunStarts(where) == {1} \cup {i \in 2..Len(where) : where[i].connector = "OR"}
SatisfiesSomeGroup(row, groups) == \E i \in 1..Len(groups) : MatchesGroup(row, groups[i])

\* C15, as stated: the predicate compiled for a non-empty clause sequence has
\* one group per run of clauses, a new group starting at each OR clause, and a
\* row matches it exactly when it satisfies every condition of at least one
\* group.  (Does not hold: a first clause with connector OR leaves an empty
\* group in front, which every row satisfies.)
C15_OneGroupPerRun ==
  (last.op = "compile" /\ Len(last.where) > 0) =>
    /\ Len(last.groups) = Cardinality(RunStarts(last.where))
    /\ (last.matches <=> SatisfiesSomeGroup(last.row, last.groups))

C17_OnlyDeclaredKeysHanded ==
  last.op = "create" => last.handed \subseteq Props

\* The limit and the offset as the contract reads them: a given number stands
\* for itself, an absent one for its default.
LimitAsSpecified(limit) == IF limit = {} THEN DefaultLimit ELSE Given(limit)
OffsetAsSpecified(offset) == IF offset = {} THEN 0 ELSE Given(offset)

\* C18: findMany returns the matching rows in the order of the sort field
\* (ascending unless desc), without the first offset rows (0 when absent) and
\* at most limit rows for every given limit, at most 100 when none is given.
C18_SortedPage ==
  last.op = "findMany" =>
    /\ {last.ordered[i] : i \in 1..Len(last.ordered)} = last.found
    /\ InOrder(last.rows, last.sortBy)
    /\ Len(last.rows) <= LimitAsSpecified(last.limit)
    /\ last.rows = Page(last.ordered, OffsetAsSpecified(last.offset),
                        LimitAsSpecified(last.limit))

\* The physical columns of the expected fields of model m.
ExpectedColumns(m) == {dbFieldOf(f) : f \in expected[m]}

\* C19: for an existing table, synchronize adds exactly the expected columns
\* absent from the live table and drops exactly the live columns other than id
\* that are no expected field's column; it writes an alter migration for the
\* model if and only if one of the two sets is not empty.
C19_AlterExactlyTheDifference ==
  stable >= 1 =>
    \A m \in SyncModels :
      TableExists(m) =>
        LET absent == ExpectedColumns(m) \ catalog[m]
            surplus == (catalog[m] \ {"id"}) \ ExpectedColumns(m)
            written == {mig \in syncWrote : mig.model = m}
        IN /\ written # {} <=> (absent # {} \/ surplus # {})
           /\ Cardinality(written) <= 1
           /\ \A mig \in written :
                /\ mig.action = "alter"
                /\ mig.addColumns = absent
                /\ mig.dropColumns = surplus

C19_Witness ==
  /\ stable >= 1
  /\ \E m \in SyncModels :
       /\ TableExists(m)
       /\ \E mig \in syncWrote :
            mig.model = m /\ mig.addColumns # {} /\ mig.dropColumns # {}
  /\ \E m \in SyncModels :
       TableExists(m) /\ ~\E mig \in syncWrote : mig.model = m

\* The number of entries of seq that are in set.
CountOf(seq, set) == Cardinality({i \in 1..Len(seq) : seq[i] \in set})

\* C20, as stated: when a transactional call has returned or failed, its scope
\* was committed or rolled back and after that released exactly once, whichever
\* step failed.  (Does not hold: connect and startTransaction run before the
\* try block, so their failure leaves the call with the scope not released.)
C20_EndedThenReleasedOnce ==
  Completed =>
    /\ Has(events, "commit") \/ Has(events, "rollback")
    /\ CountOf(events, {"release", "release:fail"}) = 1
    /\ events[Len(events)] \in {"release", "release:fail"}

\* The row after an update with the given data.
Updated(row, update) ==
  [p \in Props |-> IF p \in DOMAIN update THEN update[p] ELSE row[p]]

\* C21: an update with two or more where-clauses performs the update (every
\* row that satisfied the predicate holds the new values, every other row is
\* as it was), returns null whether no, one or several rows matched, and reads
\* nothing from the table.
C21_MultiClauseUpdateReturnsNull ==
  (last.op = "update" /\ last.ok /\ last.nwhere >= 2) =>
    /\ ~last.some
    /\ last.reads = 0
    /\ table = {IF r["id"] \in last.matched THEN Updated(r, last.update) ELSE r :
                  r \in last.before}

C21_Witness ==
  /\ last.op = "update"
  /\ last.ok
  /\ last.nwhere >= 2
  /\ Cardinality(last.matched) = 2
  /\ table # last.before

\* C22, as stated: a single-clause update whose pre-read found no row modifies
\* no row and returns null, whatever other callers do between the pre-read and
\* the update.  (Does not hold: a row another caller creates in between is
\* modified by the update.)
C22_MissedPreReadIsNoOp ==
  (updating.pc = "done" /\ updating.preread = {}) =>
    (updating.affected = 0 /\ ~updating.some)

\* The schema fields whose value is in the data.
PresentFields(fields, data) == {f \in DOMAIN fields : f \in DOMAIN data}

\* C23: transformInput for an update applies no default: the physical record
\* has exactly the columns of the schema fields whose value is in the update
\* data, each with the value given; an absent field is not emitted whatever
\* its default, no producer is called, and no id key is seeded.
C23_UpdateAppliesNoDefault ==
  (last.op = "transformInput" /\ last.action = "update") =>
    /\ DOMAIN last.record =
         {last.fields[f].fieldName : f \in PresentFields(last.fields, last.data)}
    /\ \A f \in PresentFields(last.fields, last.data) :
         last.record[last.fields[f].fieldName] = last.data[f]
    /\ "id" \notin DOMAIN last.record
    /\ \A f \in DOMAIN last.fields : last.calls[f] = 0

C23_Witness ==
  /\ last.op = "transformInput"
  /\ last.action = "update"
  /\ "id" \in DOMAIN last.data
  /\ "label" \notin DOMAIN last.data
  /\ last.fields["label"].defaultValue = Callable("made")
  /\ last.fields["kind"].defaultValue = Literal("user")
  /\ Get(last.data, "kind") = Null
  /\ DOMAIN last.record = {"kind_col"}

\* Whether the schema declares a default for the field, of any value.
HasDefault(field) == field.defaultValue.kind # "none"

\* C24, as stated: transformInput for a create emits, under its column name,
\* every schema field that is present or has a default; an absent field with
\* a default, whatever the default's value, literal or callable, is emitted
\* with the resolved default, the producer being called once when the default
\* is callable; an absent field without a default is skipped.  (Does not hold:
\* a default that is falsy in JavaScript, such as false, counts as no default.)
C24_CreateResolvesDefaults ==
  (last.op = "transformInput" /\ last.action = "create") =>
    \A f \in DOMAIN last.fields :
      LET field == last.fields[f]
          col == field.fieldName
      IN IF f \in DOMAIN last.data /\ last.data[f] # Null
         THEN col \in DOMAIN last.record /\ last.record[col] = last.data[f]
                                          /\ last.calls[f] = 0
         ELSE IF f \in DOMAIN last.data
         THEN col \in DOMAIN last.record
         ELSE IF HasDefault(field)
         THEN /\ col \in DOMAIN last.record
              /\ last.record[col] = field.defaultValue.value
              /\ last.calls[f] = IF field.defaultValue.kind = "callable" THEN 1 ELSE 0
         ELSE col \notin DOMAIN last.record

\* The group a clause goes to: the first one, moved on by every OR clause up
\* to and including the clause itself.
GroupOfClause(where, i) ==
  1 + Cardinality({j \in 1..i : where[j].connector = "OR"})
ClausesOfGroup(where, n) == {i \in 1..Len(where) : GroupOfClause(where, i) = n}
ConditionOf(w) ==
  IF w.operator = "eq" THEN [op |-> "Equal", value |-> w.value]
  ELSE convertOperatorToTypeORM(w.operator, w.value)

\* C25: a compiled group has one condition per distinct field of its clauses,
\* and when two clauses of the group filter the same field the condition is
\* the later clause's: the earlier one is overwritten, not intersected.
C25_LaterClauseOverwrites ==
  last.op = "compile" =>
    \A n \in 1..Len(last.groups) :
      LET members == ClausesOfGroup(last.where, n)
      IN /\ DOMAIN last.groups[n] = {getFieldName(last.where[i].field) : i \in members}
         /\ \A i \in members :
              (~\E j \in members : j > i /\ last.where[j].field = last.where[i].field)
                => last.groups[n][getFieldName(last.where[i].field)]
                     = ConditionOf(last.where[i])

C25_Witness ==
  /\ last.op = "compile"
  /\ last.where = <<RoleIsR0, RoleIsR1>>
  /\ last.groups = <<[role |-> [op |-> "Equal", value |-> "r1"]]>>
  /\ last.row["role"] = "r1"
  /\ last.matches

\* C30, as stated: for a non-empty where sequence every compiled group holds
\* at least one field condition, whatever the first clause's connector is.
\* (Does not hold: a first clause with connector OR leaves the group that was
\* opened before the loop without a condition.)
C30_NoGroupWithoutCondition ==
  (last.op = "compile" /\ Len(last.where) > 0) =>
    \A n \in 1..Len(last.groups) : DOMAIN last.groups[n] # {}

\* C26: the reverse of a create migration drops the table; the reverse of an
\* alter migration drops exactly the columns the forward part added and adds
\* back, as nullable text, exactly the columns it dropped; after forward and
\* reverse every table has the column names it had before.
C26_DownMirrorsUp ==
  /\ \A mig \in ran.migs :
       LET down == MigrationDown(mig)
       IN IF mig.action = "create"
          THEN down.dropTable /\ down.dropColumns = {} /\ down.addColumns = {}
          ELSE /\ ~down.dropTable
               /\ down.dropColumns = mig.addColumns
               /\ {c.name : c \in down.addColumns} = mig.dropColumns
               /\ \A c \in down.addColumns : c.type = "text" /\ c.isNullable
  /\ ran.state = "down" => catalog = ran.prior

C26_Witness ==
  /\ ran.state = "down"
  /\ \E mig \in ran.migs : mig.action = "create"
  /\ \E mig \in ran.migs :
       mig.action = "alter" /\ mig.addColumns # {} /\ mig.dropColumns # {}

\* C27, as stated: every update call issues exactly one update statement to
\* the repository, on every path.  (Does not hold: when the row the pre-read
\* found is absent on the re-read, the call falls through to the second
\* repository.update.)
C27_OneUpdateStatement ==
  (last.op = "update" /\ last.ok) => last.updates = 1

\* C28, as stated: however concurrent operations started on a data source
\* that is not initialized interleave, initialize is invoked at most once.
\* (Does not hold: every operation that starts before the first
\* initialization has settled sees isInitialized false and invokes it.)
C28_InitializeAtMostOnce ==
  dataSource.initializeCalls <= 1

\* C29, as stated: a schema-synchronize call has released the connection it
\* acquired for catalog introspection when it completes, whether it returns a
\* changelog or fails part-way.  (Does not hold: the release is the last
\* statement of the try block, and the catch block releases nothing.)
C29_ConnectionReleased ==
  (introspection.pc \in {"returned", "failed"} /\ introspection.acquired) =>
    introspection.released = 1

====
